---- MODULE Spec2Model ----
(***************************************************************************)
(* A model of calr (a Rust `cal`): the date helpers and the month renderer *)
(* of src/src/utils/date_util.rs and the orchestration and tiling of       *)
(* src/src/lib.rs.                                                         *)
(*                                                                         *)
(* Strings are sequences of one-character strings.  The character ESC is   *)
(* written "ESC"; it is one character, as in the Rust string.              *)
(* Dates are records [year, month, day] of the proleptic Gregorian         *)
(* calendar (chrono::NaiveDate).                                           *)
(***************************************************************************)
EXTENDS Integers, Sequences, FiniteSets, TLC

VARIABLES
    fn,      \* the function under call
    args,    \* its arguments
    ret,     \* its return value (NoValue before the call returns)
    stdout,  \* the lines printed so far (println! appends one line)
    pc       \* "call" before the function ran, "done" after

vars == <<fn, args, ret, stdout, pc>>

NoValue == [none |-> TRUE]

(***************************************************************************)
(* Bounds of the model.                                                    *)
(***************************************************************************)
YearSpan == 6       \* the years 2020 .. 2020 + YearSpan are drawn in full
MaxN == 26          \* months shifted by get_before_month / get_after_month
MaxSpanDays == 70   \* length in days of a get_year_month range
MaxBlocks == 15     \* month blocks handed to print_chunk_tree_month
MaxNum == 20        \* numerals handed to parse_month
MaxPrefix == 9      \* length of the month-name prefixes handed to parse_month

\* Args.year is 1..=9999 (lib.rs:17); both ends and a run of recent years.
Years == {1, 9999} \cup (2020 .. (2020 + YearSpan))
Months == 1 .. 12

(***************************************************************************)
(* Strings.                                                                *)
(***************************************************************************)
ESC == "ESC"

RECURSIVE Spaces(_)
Spaces(n) == IF n <= 0 THEN <<>> ELSE <<" ">> \o Spaces(n - 1)

DigitChar == <<"0", "1", "2", "3", "4", "5", "6", "7", "8", "9">>

\* Display of a non-negative integer ({num}, {year}).
RECURSIVE Digits(_)
Digits(n) == IF n < 10 THEN <<DigitChar[n + 1]>>
             ELSE Digits(n \div 10) \o <<DigitChar[(n % 10) + 1]>>

\* {:>w}: right-justified, width counted in characters, never truncated.
PadLeft(s, w) == Spaces(w - Len(s)) \o s

\* {:w}: a string is left-justified, width counted in characters.
PadRight(s, w) == s \o Spaces(w - Len(s))

\* {:^w}: centred; the odd space goes to the right.
Center(s, w) ==
    IF Len(s) >= w THEN s
    ELSE LET pad == w - Len(s)
             left == pad \div 2
         IN  Spaces(left) \o s \o Spaces(pad - left)

\* [String]::join(sep)
RECURSIVE Join(_, _)
Join(cells, sep) ==
    IF cells = <<>> THEN <<>>
    ELSE IF Len(cells) = 1 THEN cells[1]
    ELSE cells[1] \o sep \o Join(Tail(cells), sep)

\* slice::chunks(n): consecutive chunks of n elements, the last one shorter.
RECURSIVE Chunks(_, _)
Chunks(seq, n) ==
    IF seq = <<>> THEN <<>>
    ELSE IF Len(seq) <= n THEN <<seq>>
    ELSE <<SubSeq(seq, 1, n)>> \o Chunks(SubSeq(seq, n + 1, Len(seq)), n)

(***************************************************************************)
(* chrono::NaiveDate.                                                      *)
(***************************************************************************)
Date(y, m, d) == [year |-> y, month |-> m, day |-> d]

IsLeapYear(y) == (y % 4 = 0 /\ y % 100 # 0) \/ y % 400 = 0

\* Days of the years 0 .. y-1 (y >= 0; year 0 is a leap year).
DaysBeforeYear(y) ==
    365 * y + ((y + 3) \div 4) - ((y + 99) \div 100) + ((y + 399) \div 400)

CumDays == <<0, 31, 59, 90, 120, 151, 181, 212, 243, 273, 304, 334>>

\* The day count of a date from a fixed origin (num_days_from_ce, shifted).
DayNumber(date) ==
    DaysBeforeYear(date.year) + CumDays[date.month]
      + (IF date.month > 2 /\ IsLeapYear(date.year) THEN 1 ELSE 0) + date.day

\* a.signed_duration_since(b).num_days()
SignedDurationDays(a, b) == DayNumber(a) - DayNumber(b)

\* date.weekday().number_from_sunday(): Sunday = 1 .. Saturday = 7.
NumberFromSunday(date) == ((DayNumber(date) + 5) % 7) + 1

\* chrono's own month lengths, used by pred_opt, succ and month arithmetic.
ChronoMonthLen(y, m) ==
    IF m = 2 THEN (IF IsLeapYear(y) THEN 29 ELSE 28)
    ELSE IF m \in {4, 6, 9, 11} THEN 30 ELSE 31

\* date.pred_opt().unwrap()
PredDate(date) ==
    IF date.day > 1 THEN Date(date.year, date.month, date.day - 1)
    ELSE IF date.month > 1
         THEN Date(date.year, date.month - 1, ChronoMonthLen(date.year, date.month - 1))
         ELSE Date(date.year - 1, 12, 31)

\* The date of a day count: the inverse of DayNumber.
DateOfDayNumber(n) ==
    LET y == CHOOSE c \in ((n \div 366) - 1) .. (n \div 365) :
                 DaysBeforeYear(c) < n /\ n <= DaysBeforeYear(c + 1)
        doy == n - DaysBeforeYear(y)
        Before(m) == CumDays[m] + (IF m > 2 /\ IsLeapYear(y) THEN 1 ELSE 0)
        mo == CHOOSE c \in 1 .. 12 :
                 Before(c) < doy /\ doy <= Before(c) + ChronoMonthLen(y, c)
    IN  Date(y, mo, doy - Before(mo))

\* date + Duration::days(k)
AddDays(date, k) == DateOfDayNumber(DayNumber(date) + k)

\* a <= b on NaiveDate
DateLE(a, b) ==
    \/ a.year < b.year
    \/ a.year = b.year /\ a.month < b.month
    \/ a.year = b.year /\ a.month = b.month /\ a.day <= b.day

Min(a, b) == IF a <= b THEN a ELSE b

\* date - Months::new(n): whole years first, then the months left over,
\* the day clamped to the target month's length.
SubMonths(date, n) ==
    LET years == n \div 12
        left == n % 12
        m0 == date.month - left
        y == IF m0 <= 0 THEN date.year - years - 1 ELSE date.year - years
        m == IF m0 <= 0 THEN m0 + 12 ELSE m0
    IN  Date(y, m, Min(date.day, ChronoMonthLen(y, m)))

\* date + Months::new(n)
AddMonths(date, n) ==
    LET years == n \div 12
        left == n % 12
        m0 == date.month + left
        y == IF m0 > 12 THEN date.year + years + 1 ELSE date.year + years
        m == IF m0 > 12 THEN m0 - 12 ELSE m0
    IN  Date(y, m, Min(date.day, ChronoMonthLen(y, m)))

(***************************************************************************)
(* date_util.rs                                                            *)
(***************************************************************************)
LINE_WIDTH == 22

MONTH_NAMES == <<
    <<"J", "a", "n", "u", "a", "r", "y">>,
    <<"F", "e", "b", "r", "u", "a", "r", "y">>,
    <<"M", "a", "r", "c", "h">>,
    <<"A", "p", "r", "i", "l">>,
    <<"M", "a", "y">>,
    <<"J", "u", "n", "e">>,
    <<"J", "u", "l", "y">>,
    <<"A", "u", "g", "u", "s", "t">>,
    <<"S", "e", "p", "t", "e", "m", "b", "e", "r">>,
    <<"O", "c", "t", "o", "b", "e", "r">>,
    <<"N", "o", "v", "e", "m", "b", "e", "r">>,
    <<"D", "e", "c", "e", "m", "b", "e", "r">> >>

last_day_in_month(year, month) ==
    LET y == IF month = 12 THEN year + 1 ELSE year
        m == IF month = 12 THEN 1 ELSE month + 1
    IN  PredDate(Date(y, m, 1))

\* Style::new().reverse().paint(fmt).to_string()
ReversePaint(fmt) == <<ESC, "[", "7", "m">> \o fmt \o <<ESC, "[", "0", "m">>

\* Mutant: only the day number is compared.
is_today_DayOnly(year, month, day, today) == day = today.day

is_today(year, month, day, today) ==
    year = today.year /\ month = today.month /\ day = today.day

\* The header line of a month block.
MonthHeader(year, month, add_year) ==
    LET month_name == MONTH_NAMES[month]
    IN  Center(IF add_year THEN month_name \o <<" ">> \o Digits(year)
                           ELSE month_name, 20) \o <<" ", " ">>

WeekdayHeader ==
    <<"S", "u", " ", "M", "o", " ", "T", "u", " ", "W", "e", " ",
      "T", "h", " ", "F", "r", " ", "S", "a", " ", " ">>

\* One day cell: the numeral, painted when it is today.
DayCell(year, month, num, today) ==
    LET fmt == PadLeft(Digits(num), 2)
    IN  IF is_today(year, month, num, today) THEN ReversePaint(fmt) ELSE fmt

\* Mutant: one blank cell too many before the 1st.
MonthDays_ExtraBlank(year, month, today) ==
    LET first == Date(year, month, 1)
        last == last_day_in_month(year, month)
    IN  [i \in 1 .. NumberFromSunday(first) |-> <<" ", " ">>]
        \o [k \in 1 .. (last.day - first.day + 1) |->
               DayCell(year, month, first.day + k - 1, today)]

\* The cells of the month: the blanks before the 1st, then the days.
MonthDays(year, month, today) ==
    LET first == Date(year, month, 1)
        last == last_day_in_month(year, month)
    IN  [i \in 1 .. (NumberFromSunday(first) - 1) |-> <<" ", " ">>]
        \o [k \in 1 .. (last.day - first.day + 1) |->
               DayCell(year, month, first.day + k - 1, today)]

\* One week line.
WeekLine(week) == PadRight(Join(week, <<" ">>), LINE_WIDTH - 2) \o <<" ", " ">>

\* while lines.len() < 8 { lines.push(" ".repeat(LINE_WIDTH)) }
RECURSIVE FillBlank(_)
FillBlank(lines) ==
    IF Len(lines) < 8 THEN FillBlank(Append(lines, Spaces(LINE_WIDTH))) ELSE lines

format_month(year, month, add_year, today) ==
    LET weeks == Chunks(MonthDays(year, month, today), 7)
    IN  FillBlank(<<MonthHeader(year, month, add_year), WeekdayHeader>>
                  \o [w \in 1 .. Len(weeks) |-> WeekLine(weeks[w])])

get_before_month(n, year, month) ==
    LET target_date == Date(year, month, 1)
    IN  SubMonths(target_date, n)

get_days_from_ym(year, month) ==
    SignedDurationDays(
        Date(IF month = 12 THEN year + 1 ELSE year,
             IF month = 12 THEN 1 ELSE month + 1, 1),
        Date(year, month, 1))

\* Mutant: the length of the anchor month, not of the month reached.
get_after_month_AnchorLen(n, year, month) ==
    LET after_month_first == AddMonths(Date(year, month, 1), n)
    IN  Date(after_month_first.year, after_month_first.month,
             get_days_from_ym(year, month))

get_after_month(n, year, month) ==
    LET target_date == Date(year, month, 1)
        after_month_first == AddMonths(target_date, n)
    IN  Date(after_month_first.year, after_month_first.month,
             get_days_from_ym(after_month_first.year, after_month_first.month))


\* (0..).map(|i| start_date + Duration::days(i)).take_while(|d| *d <= end_date):
\* the dates grow with i, so the days taken are those of i = 0 .. end - start.
DaysUpTo(start_date, end_date) ==
    [j \in 1 .. (SignedDurationDays(end_date, start_date) + 1) |->
        AddDays(start_date, j - 1)]

IsMonthStart(date) == date.day = 1

\* Mutant: the end date is left out of the walk.
get_year_month_EndExcluded(start_date, end_date) ==
    LET calendar == DaysUpTo(start_date, PredDate(end_date))
        firsts == SelectSeq(calendar, IsMonthStart)
    IN  [i \in 1 .. Len(firsts) |-> <<firsts[i].year, firsts[i].month>>]

get_year_month(start_date, end_date) ==
    LET calendar == DaysUpTo(start_date, end_date)
        firsts == SelectSeq(calendar, IsMonthStart)
    IN  [i \in 1 .. Len(firsts) |-> <<firsts[i].year, firsts[i].month>>]

is_all_same_year(year_months) ==
    \A i \in 1 .. Len(year_months) : year_months[i][1] = year_months[1][1]

get_calendar(year_months, all_same_year, today) ==
    [i \in 1 .. Len(year_months) |->
        format_month(year_months[i][1], year_months[i][2], all_same_year, today)]


\* Option<T>: <<>> is None, <<v>> is Some(v).
None == <<>>
Some(v) == <<v>>
unwrap_or(opt, default) == IF opt = None THEN default ELSE opt[1]

\* Result<T>: Ok(v) or Err(message).
Ok(v) == [ok |-> TRUE, val |-> v]
Err(msg) == [ok |-> FALSE, msg |-> msg]

IsDigit(c) == \E i \in 1 .. 10 : DigitChar[i] = c
DigitValue(c) == (CHOOSE i \in 1 .. 10 : DigitChar[i] = c) - 1

RECURSIVE DecimalValue(_)
DecimalValue(ds) ==
    IF ds = <<>> THEN 0
    ELSE 10 * DecimalValue(SubSeq(ds, 1, Len(ds) - 1)) + DigitValue(ds[Len(ds)])

RECURSIVE StripZeros(_)
StripZeros(ds) ==
    IF ds # <<>> /\ ds[1] = "0" THEN StripZeros(Tail(ds)) ELSE ds

\* a <= b for two digit strings of the same length.
RECURSIVE DigitsLE(_, _)
DigitsLE(a, b) ==
    IF a = <<>> THEN TRUE
    ELSE IF DigitValue(a[1]) # DigitValue(b[1]) THEN DigitValue(a[1]) < DigitValue(b[1])
    ELSE DigitsLE(Tail(a), Tail(b))

U32MaxDigits == <<"4", "2", "9", "4", "9", "6", "7", "2", "9", "5">>

\* str::parse::<u32>(): an optional "+", then one or more ASCII digits, the
\* value no more than u32::MAX; anything else is an error (None here).
\* A value of ten digits is held as 1000000000: the integers of TLC
\* end below u32::MAX, and parse_month only asks whether it is in 1..=12.
ParseU32(str) ==
    LET ds == IF str # <<>> /\ str[1] = "+" THEN Tail(str) ELSE str
        sig == StripZeros(ds)
    IN  IF ds # <<>> /\ (\A i \in 1 .. Len(ds) : IsDigit(ds[i]))
           /\ (Len(sig) < 10 \/ (Len(sig) = 10 /\ DigitsLE(sig, U32MaxDigits)))
        THEN Some(IF Len(sig) < 10 THEN DecimalValue(sig) ELSE 1000000000)
        ELSE None

UpperChars == <<"A", "B", "C", "D", "E", "F", "G", "H", "I", "J", "K", "L", "M",
                "N", "O", "P", "Q", "R", "S", "T", "U", "V", "W", "X", "Y", "Z">>
LowerChars == <<"a", "b", "c", "d", "e", "f", "g", "h", "i", "j", "k", "l", "m",
                "n", "o", "p", "q", "r", "s", "t", "u", "v", "w", "x", "y", "z">>

LowerChar(c) ==
    IF \E i \in 1 .. 26 : UpperChars[i] = c
    THEN LowerChars[CHOOSE i \in 1 .. 26 : UpperChars[i] = c]
    ELSE c

\* str::to_lowercase()
to_lowercase(str) == [i \in 1 .. Len(str) |-> LowerChar(str[i])]

\* str::starts_with(prefix)
starts_with(str, prefix) ==
    Len(prefix) <= Len(str) /\ SubSeq(str, 1, Len(prefix)) = prefix

\* The numbers (1-based) of the month names the lower-cased input starts.
MonthMatches(lower) ==
    LET Hit(i) == starts_with(to_lowercase(MONTH_NAMES[i]), lower)
    IN  SelectSeq([i \in 1 .. 12 |-> i], Hit)

\* Mutant: several matching names are settled by the first of them.
parse_month_FirstMatch(month) ==
    LET num == ParseU32(month)
        matches == MonthMatches(to_lowercase(month))
    IN  IF num # None
        THEN IF num[1] \in 1 .. 12 THEN Ok(num[1]) ELSE Err(month)
        ELSE IF Len(matches) >= 1 THEN Ok(matches[1]) ELSE Err(month)

parse_month(month) ==
    LET num == ParseU32(month)
    IN  IF num # None
        THEN IF num[1] \in 1 .. 12
             THEN Ok(num[1])
             ELSE Err(<<"m", "o", "n", "t", "h", " ", "\"">> \o month
                      \o <<"\"", " ", "n", "o", "t", " ", "i", "n", " ", "t", "h", "e", " ",
                           "r", "a", "n", "g", "e", " ", "1", " ",
                           "t", "h", "r", "o", "u", "g", "h", " ", "1", "2">>)
        ELSE LET matches == MonthMatches(to_lowercase(month))
             IN  IF Len(matches) = 1
                 THEN Ok(matches[1])
                 ELSE Err(<<"I", "n", "v", "a", "l", "i", "d", " ",
                            "m", "o", "n", "t", "h", " ", "\"">> \o month \o <<"\"">>)


(***************************************************************************)
(* lib.rs                                                                  *)
(***************************************************************************)
\* Mutant: a chunk of fewer than three blocks is printed too.
PrintedChunk_Partial(i, chunk) ==
    [k \in 1 .. Len(chunk[1]) |->
        chunk[1][k] \o (IF Len(chunk) > 1 THEN chunk[2][k] ELSE <<>>)
                    \o (IF Len(chunk) > 2 THEN chunk[3][k] ELSE <<>>)]
    \o (IF i < 3 THEN << <<>> >> ELSE <<>>)

\* Mutant: an empty line after every chunk printed.
PrintedChunk_NoCap(i, chunk) ==
    IF Len(chunk) = 3
    THEN [k \in 1 .. Len(chunk[1]) |-> chunk[1][k] \o chunk[2][k] \o chunk[3][k]]
         \o << <<>> >>
    ELSE <<>>

\* What one chunk of calendar.chunks(3) prints, i its 0-based index: a chunk
\* of three blocks prints one line per izip!(m1, m2, m3) item (as many as the
\* shortest block has lines) and, when i < 3, an empty line; a shorter chunk
\* prints nothing.
PrintedChunk(i, chunk) ==
    IF Len(chunk) = 3
    THEN [k \in 1 .. Min(Len(chunk[1]), Min(Len(chunk[2]), Len(chunk[3]))) |->
             chunk[1][k] \o chunk[2][k] \o chunk[3][k]]
         \o (IF i < 3 THEN << <<>> >> ELSE <<>>)
    ELSE <<>>

\* The lines print_chunk_tree_month prints, in order.
print_chunk_tree_month(calendar) ==
    LET chunks == Chunks(calendar, 3)
        printed[i \in 0 .. Len(chunks)] ==
            IF i = 0 THEN <<>> ELSE printed[i - 1] \o PrintedChunk(i - 1, chunks[i])
    IN  printed[Len(chunks)]

\* println!("{year:>32}")
YearBanner(year) == PadLeft(Digits(year), 32)

\* The months of the three-month view around (year, month).
ThreeYearMonths(year, month) ==
    LET start_date == get_before_month(1, year, month)
        end_date == get_after_month(1, year, month)
    IN  get_year_month(start_date, end_date)

\* Mutant: the header flag is passed on as it is, not negated.
run_FlagNotNegated(year_opt, month_opt, today, three_flg) ==
    LET year == unwrap_or(year_opt, today.year)
    IN  IF three_flg
        THEN LET month == unwrap_or(month_opt, today.month)
                 year_months == ThreeYearMonths(year, month)
                 all_same_year == is_all_same_year(year_months)
                 calendar == get_calendar(year_months, all_same_year, today)
             IN  (IF all_same_year THEN <<YearBanner(year)>> ELSE <<>>)
                 \o print_chunk_tree_month(calendar)
        ELSE IF month_opt # None
             THEN format_month(year, month_opt[1], TRUE, today)
             ELSE <<YearBanner(year)>>
                  \o print_chunk_tree_month(
                        get_calendar(get_year_month(Date(year, 1, 1), Date(year, 12, 31)),
                                     FALSE, today))

\* The lines run prints, given what parse_args returned.
run(year_opt, month_opt, today, three_flg) ==
    LET year == unwrap_or(year_opt, today.year)
    IN  IF three_flg
        THEN LET month == unwrap_or(month_opt, today.month)
                 year_months == ThreeYearMonths(year, month)
                 all_same_year == is_all_same_year(year_months)
                 calendar == get_calendar(year_months, ~all_same_year, today)
             IN  (IF all_same_year THEN <<YearBanner(year)>> ELSE <<>>)
                 \o print_chunk_tree_month(calendar)
        ELSE IF month_opt # None
             THEN format_month(year, month_opt[1], TRUE, today)
             ELSE LET start_date == Date(year, 1, 1)
                      end_date == Date(year, 12, 31)
                      year_months == get_year_month(start_date, end_date)
                      calendar == get_calendar(year_months, FALSE, today)
                  IN  <<YearBanner(year)>> \o print_chunk_tree_month(calendar)


(***************************************************************************)
(* The month renderer called on one month: format_month.                   *)
(***************************************************************************)
\* The dates drawn for `today`: the tests' sentinel 0000-01-01, every day
\* of the rendered month, and days of the month after it and of the same
\* month one year earlier (the same day numbers, another month or year).
Todays(year, month) ==
    {Date(0, 1, 1)}
    \cup {Date(year, month, td) : td \in 1 .. ChronoMonthLen(year, month)}
    \cup {Date(year - 1, month, td) : td \in {1, 15, 28}}
    \cup {Date(year, (month % 12) + 1, td) : td \in {1, 15, 28}}

InitFormat ==
    /\ fn = "format_month"
    /\ \E year \in Years, month \in Months, add_year \in BOOLEAN :
         \E today \in Todays(year, month) :
            args = [year |-> year, month |-> month,
                    add_year |-> add_year, today |-> today]
    /\ ret = NoValue
    /\ stdout = <<>>
    /\ pc = "call"

FormatMonth ==
    /\ pc = "call"
    /\ fn = "format_month"
    /\ ret' = format_month(args.year, args.month, args.add_year, args.today)
    /\ pc' = "done"
    /\ UNCHANGED <<fn, args, stdout>>

NextFormat == FormatMonth

SpecFormat == InitFormat /\ [][NextFormat]_vars

(***************************************************************************)
(* What a terminal shows of a line.                                        *)
(***************************************************************************)
\* The line without its style sequences (ESC [ <digit> m).
RECURSIVE StripStyle(_)
StripStyle(line) ==
    IF line = <<>> THEN <<>>
    ELSE IF Head(line) = ESC THEN StripStyle(SubSeq(line, 5, Len(line)))
    ELSE <<Head(line)>> \o StripStyle(Tail(line))

DisplayWidth(line) == Len(StripStyle(line))

\* For each displayed character of the line, whether it is shown in reverse
\* video: TRUE between ESC[7m and ESC[0m.
RECURSIVE Reversed(_, _)
Reversed(line, on) ==
    IF line = <<>> THEN <<>>
    ELSE IF Head(line) = ESC
         THEN Reversed(SubSeq(line, 5, Len(line)), line[3] = "7")
         ELSE <<on>> \o Reversed(Tail(line), on)

\* The calendar's facts, stated apart from the code: the month lengths and
\* the weekday of a date (0 = Sunday) by Sakamoto's rule.
TrueMonthLen(y, m) ==
    CASE m \in {1, 3, 5, 7, 8, 10, 12} -> 31
      [] m \in {4, 6, 9, 11} -> 30
      [] OTHER -> IF y % 400 = 0 \/ (y % 4 = 0 /\ y % 100 # 0) THEN 29 ELSE 28

TrueWeekday(y, m, d) ==
    LET t == <<0, 3, 2, 5, 0, 3, 5, 1, 4, 6, 2, 4>>
        yy == IF m < 3 THEN y - 1 ELSE y
    IN  (yy + (yy \div 4) - (yy \div 100) + (yy \div 400) + t[m] + d) % 7

\* The two characters of column c (0..6) of a displayed week line.
CellText(shown, c) == SubSeq(shown, 3 * c + 1, 3 * c + 2)

\* The block as displayed.
Shown(lines) == [i \in 1 .. Len(lines) |-> StripStyle(lines[i])]

FormatDone == fn = "format_month" /\ pc = "done"

TodayInMonth == args.today.year = args.year /\ args.today.month = args.month

\* C1: format_month returns exactly 8 lines, each 22 display characters
\* wide, whatever the month, the header mode and today are.
C1_EightLinesOf22 ==
    FormatDone =>
        /\ Len(ret) = 8
        /\ \A i \in 1 .. Len(ret) : DisplayWidth(ret[i]) = LINE_WIDTH

\* C2: day d stands in week line 3 + (w + d - 1) div 7 at column
\* (w + d - 1) mod 7 as a right-justified 2-character numeral, the w cells
\* before day 1 are blank, and the week lines after the one that holds the
\* last day are 22 spaces.
C2_DayPlacement ==
    FormatDone =>
        LET w == TrueWeekday(args.year, args.month, 1)
            L == TrueMonthLen(args.year, args.month)
            lastLine == 3 + ((w + L - 1) \div 7)
            shown == Shown(ret)
        IN  /\ Len(ret) = 8
            /\ lastLine <= 8
            /\ \A d \in 1 .. L :
                 CellText(shown[3 + ((w + d - 1) \div 7)], (w + d - 1) % 7)
                    = PadLeft(Digits(d), 2)
            /\ \A c \in 0 .. (w - 1) : CellText(shown[3], c) = <<" ", " ">>
            /\ \A i \in (lastLine + 1) .. 8 : ret[i] = Spaces(22)

\* A February of four week lines only: lines 7 and 8 are blank.
C2_Witness ==
    /\ FormatDone
    /\ args.year = 2026 /\ args.month = 2
    /\ CellText(Shown(ret)[3], 0) = <<" ", "1">>
    /\ CellText(Shown(ret)[6], 6) = <<"2", "8">>
    /\ ret[7] = Spaces(22) /\ ret[8] = Spaces(22)

\* C3: the cell of day d is shown in reverse video iff today is day d of
\* the rendered year and month; nothing else of the block is.
C3_HighlightIffToday ==
    FormatDone =>
        LET w == TrueWeekday(args.year, args.month, 1)
            L == TrueMonthLen(args.year, args.month)
            Cell(d) == <<3 + ((w + d - 1) \div 7), 3 * ((w + d - 1) % 7)>>
            rev == [i \in 1 .. Len(ret) |-> Reversed(ret[i], FALSE)]
            Marked == UNION {{<<i, p>> : p \in {q \in 1 .. Len(rev[i]) : rev[i][q]}} :
                               i \in 1 .. Len(ret)}
        IN  Marked = UNION {{<<Cell(d)[1], Cell(d)[2] + 1>>,
                             <<Cell(d)[1], Cell(d)[2] + 2>>} :
                               d \in {e \in 1 .. L :
                                        /\ args.today.year = args.year
                                        /\ args.today.month = args.month
                                        /\ args.today.day = e}}

\* Today is a day of the rendered month and its cell is painted.
C3_Witness ==
    /\ FormatDone
    /\ TodayInMonth
    /\ \E i \in 3 .. 8 : \E p \in 1 .. Len(ret[i]) : ret[i][p] = ESC

(***************************************************************************)
(* The month shifts called on one anchor: get_before_month and             *)
(* get_after_month.                                                        *)
(***************************************************************************)
InitShift ==
    /\ fn \in {"get_before_month", "get_after_month"}
    /\ \E n \in 0 .. MaxN, year \in Years, month \in Months :
          args = [n |-> n, year |-> year, month |-> month]
    /\ ret = NoValue
    /\ stdout = <<>>
    /\ pc = "call"

GetBeforeMonth ==
    /\ pc = "call"
    /\ fn = "get_before_month"
    /\ ret' = get_before_month(args.n, args.year, args.month)
    /\ pc' = "done"
    /\ UNCHANGED <<fn, args, stdout>>

GetAfterMonth ==
    /\ pc = "call"
    /\ fn = "get_after_month"
    /\ ret' = get_after_month(args.n, args.year, args.month)
    /\ pc' = "done"
    /\ UNCHANGED <<fn, args, stdout>>

NextShift == GetBeforeMonth \/ GetAfterMonth

SpecShift == InitShift /\ [][NextShift]_vars

\* The month before and the month after a (year, month) pair, the year
\* stepping at the December/January crossing.
PrevYM(ym) == IF ym[2] = 1 THEN <<ym[1] - 1, 12>> ELSE <<ym[1], ym[2] - 1>>
NextYM(ym) == IF ym[2] = 12 THEN <<ym[1] + 1, 1>> ELSE <<ym[1], ym[2] + 1>>

RECURSIVE MonthsBefore(_, _)
MonthsBefore(ym, n) == IF n = 0 THEN ym ELSE MonthsBefore(PrevYM(ym), n - 1)

RECURSIVE MonthsAfter(_, _)
MonthsAfter(ym, n) == IF n = 0 THEN ym ELSE MonthsAfter(NextYM(ym), n - 1)

\* C4: get_before_month is the first day of the month n months before the
\* anchor, get_after_month the last day (by the true month length) of the
\* month n months after it; for n = 0 both are days of the anchor month.
C4_ShiftMonths ==
    pc = "done" /\ fn \in {"get_before_month", "get_after_month"} =>
        LET anchor == <<args.year, args.month>>
            before == MonthsBefore(anchor, args.n)
            after == MonthsAfter(anchor, args.n)
        IN  /\ fn = "get_before_month" =>
                 ret = Date(before[1], before[2], 1)
            /\ fn = "get_after_month" =>
                 ret = Date(after[1], after[2], TrueMonthLen(after[1], after[2]))
            /\ args.n = 0 /\ fn = "get_before_month" =>
                 ret = Date(args.year, args.month, 1)
            /\ args.n = 0 /\ fn = "get_after_month" =>
                 ret = Date(args.year, args.month,
                            TrueMonthLen(args.year, args.month))

\* A shift over a year boundary that ends on a leap day.
C4_Witness ==
    /\ pc = "done"
    /\ fn = "get_after_month"
    /\ args.n > 12
    /\ ret.year > args.year
    /\ ret.month = 2 /\ ret.day = 29

(***************************************************************************)
(* The month enumeration called on one range: get_year_month.              *)
(***************************************************************************)
\* The start dates drawn: the first, second, a middle and the last day of
\* every month of a leap year and of the year before it.
StartDates ==
    UNION {{Date(y, m, d) : d \in {1, 2, 15, ChronoMonthLen(y, m)}} :
              <<y, m>> \in {2023, 2024} \X Months}

InitYM ==
    /\ fn = "get_year_month"
    /\ \E start_date \in StartDates, k \in 0 .. MaxSpanDays :
          args = [start_date |-> start_date, end_date |-> AddDays(start_date, k)]
    /\ ret = NoValue
    /\ stdout = <<>>
    /\ pc = "call"

GetYearMonth ==
    /\ pc = "call"
    /\ fn = "get_year_month"
    /\ ret' = get_year_month(args.start_date, args.end_date)
    /\ pc' = "done"
    /\ UNCHANGED <<fn, args, stdout>>

NextEnum == GetYearMonth

SpecYM == InitYM /\ [][NextEnum]_vars

\* (year, month) pairs in chronological order.
YMBefore(a, b) == a[1] < b[1] \/ (a[1] = b[1] /\ a[2] < b[2])

Range(seq) == {seq[i] : i \in 1 .. Len(seq)}

\* C5: get_year_month returns exactly the (year, month) pairs whose first
\* day lies in start_date .. end_date, in strictly increasing order; the
\* month of start_date is in it iff start_date is a 1st, and the month of
\* end_date is whenever its first day is not before start_date.
C5_YearMonths ==
    pc = "done" /\ fn = "get_year_month" =>
        LET s == args.start_date
            e == args.end_date
            firsts == {ym \in (s.year .. e.year) \X Months :
                          /\ DateLE(s, Date(ym[1], ym[2], 1))
                          /\ DateLE(Date(ym[1], ym[2], 1), e)}
        IN  /\ Range(ret) = firsts
            /\ \A i \in 1 .. (Len(ret) - 1) : YMBefore(ret[i], ret[i + 1])
            /\ (<<s.year, s.month>> \in Range(ret)) <=> (s.day = 1)
            /\ DateLE(s, Date(e.year, e.month, 1)) =>
                  <<e.year, e.month>> \in Range(ret)

\* A range that starts inside a month and crosses the year boundary.
C5_Witness ==
    /\ pc = "done" /\ fn = "get_year_month"
    /\ args.start_date.day > 1
    /\ args.start_date.year < args.end_date.year
    /\ Len(ret) = 2
    /\ ret[2] = <<args.end_date.year, 1>>

(***************************************************************************)
(* The tiling called on one calendar: print_chunk_tree_month.              *)
(***************************************************************************)
\* The months from ym on, k of them.
MonthRun(ym, k) == [i \in 1 .. k |-> MonthsAfter(ym, i - 1)]

InitPrint ==
    /\ fn = "print_chunk_tree_month"
    /\ \E month \in Months, k \in 0 .. MaxBlocks, add_year \in BOOLEAN :
         \E today \in {Date(0, 1, 1), Date(2024, month, 15)} :
            args = [calendar |->
                       get_calendar(MonthRun(<<2024, month>>, k), add_year, today)]
    /\ ret = NoValue
    /\ stdout = <<>>
    /\ pc = "call"

PrintChunkTreeMonth ==
    /\ pc = "call"
    /\ fn = "print_chunk_tree_month"
    /\ stdout' = stdout \o print_chunk_tree_month(args.calendar)
    /\ pc' = "done"
    /\ UNCHANGED <<fn, args, ret>>

NextPrint == PrintChunkTreeMonth

SpecPrint == InitPrint /\ [][NextPrint]_vars

PrintDone == fn = "print_chunk_tree_month" /\ pc = "done"

IsBlank(line) == line = <<>>
NotBlank(line) == line # <<>>

\* The places of the empty lines of the output.
BlankPlaces(out) == {p \in 1 .. Len(out) : IsBlank(out[p])}

\* C6: the output holds floor(k / 3) groups; group j is 8 consecutive lines,
\* line i the concatenation of line i of blocks 3j, 3j+1, 3j+2 in that
\* order; the groups come in increasing j; the k mod 3 blocks left over
\* print nothing.
C6_CompleteTriplesOnly ==
    PrintDone =>
        LET cal == args.calendar
            g == Len(cal) \div 3
            body == SelectSeq(stdout, NotBlank)
        IN  /\ Len(body) = 8 * g
            /\ \A j \in 0 .. (g - 1) : \A i \in 1 .. 8 :
                 body[8 * j + i]
                    = cal[3 * j + 1][i] \o cal[3 * j + 2][i] \o cal[3 * j + 3][i]
            /\ \A p \in BlankPlaces(stdout) :
                 LET before == Len(SelectSeq(SubSeq(stdout, 1, p - 1), NotBlank))
                 IN  before > 0 /\ before % 8 = 0

\* Seven blocks: two groups are printed and the seventh block is dropped.
C6_Witness ==
    /\ PrintDone
    /\ Len(args.calendar) = 7
    /\ Len(SelectSeq(stdout, NotBlank)) = 16

\* C7: at most 3 empty lines are printed in all; 12 blocks print 4 groups
\* of 8 lines with 3 empty lines, one between each two groups and none
\* after the last.
C7_AtMostThreeSeparators ==
    PrintDone =>
        /\ Cardinality(BlankPlaces(stdout)) <= 3
        /\ Len(args.calendar) = 12 =>
              /\ Len(stdout) = 35
              /\ BlankPlaces(stdout) = {9, 18, 27}

\* Fifteen blocks: five groups, and still three empty lines.
C7_Witness ==
    /\ PrintDone
    /\ Len(args.calendar) = 15
    /\ Len(SelectSeq(stdout, NotBlank)) = 40
    /\ Cardinality(BlankPlaces(stdout)) = 3

\* C8: every empty line printed is followed later by a line of another
\* triple, so the output never ends with an empty line.
C8_SeparatorOnlyBetween ==
    PrintDone =>
        \A p \in BlankPlaces(stdout) :
            \E q \in (p + 1) .. Len(stdout) : NotBlank(stdout[q])

(***************************************************************************)
(* The program: run on what parse_args returned.                           *)
(***************************************************************************)
\* parse_args returns a year or a month (both when neither was given); the
\* year is in 1..=9999 when given, the month in 1..=12.
Init ==
    /\ fn = "run"
    /\ \E year \in {None} \cup {Some(y) : y \in Years},
          month \in {None} \cup {Some(m) : m \in Months},
          today \in {Date(2024, 2, 29), Date(2025, 12, 31)},
          three \in BOOLEAN :
         /\ year # None \/ month # None
         /\ args = [year |-> year, month |-> month, today |-> today, three |-> three]
    /\ ret = NoValue
    /\ stdout = <<>>
    /\ pc = "call"

Run ==
    /\ pc = "call"
    /\ fn = "run"
    /\ stdout' = stdout \o run(args.year, args.month, args.today, args.three)
    /\ ret' = Ok(<<"S", "u", "c", "c", "e", "s", "s">>)
    /\ pc' = "done"
    /\ UNCHANGED <<fn, args>>

Next == Run

Spec == Init /\ [][Next]_vars

\* The header a month block is to have.
ExpectedHeader(ym, with_year) ==
    Center(IF with_year THEN MONTH_NAMES[ym[2]] \o <<" ">> \o Digits(ym[1])
                        ELSE MONTH_NAMES[ym[2]], 20) \o Spaces(2)

ThreeDone == fn = "run" /\ pc = "done" /\ args.three

AnchorYear == unwrap_or(args.year, args.today.year)
AnchorMonth == unwrap_or(args.month, args.today.month)

\* C9: three-month mode enumerates the month before the anchor, the anchor
\* and the month after it, in that order; with all three in the anchor
\* year one year banner is printed and no header holds a year; with a year
\* boundary crossed no banner is printed and each header holds its own year.
C9_ThreeMonthMode ==
    ThreeDone =>
        LET anchor == <<AnchorYear, AnchorMonth>>
            prev == PrevYM(anchor)
            next == NextYM(anchor)
            same == prev[1] = anchor[1] /\ next[1] = anchor[1]
            banners == {p \in 1 .. Len(stdout) : Len(stdout[p]) = 32}
            Headers(with_year) ==
                ExpectedHeader(prev, with_year) \o ExpectedHeader(anchor, with_year)
                    \o ExpectedHeader(next, with_year)
        IN  /\ ThreeYearMonths(AnchorYear, AnchorMonth) = <<prev, anchor, next>>
            /\ same <=> AnchorMonth \notin {1, 12}
            /\ same =>
                  /\ banners = {1}
                  /\ stdout[1] = PadLeft(Digits(AnchorYear), 32)
                  /\ stdout[2] = Headers(FALSE)
            /\ ~same =>
                  /\ banners = {}
                  /\ stdout[1] = Headers(TRUE)

\* A December anchor: the view runs into the next year.
C9_Witness ==
    /\ ThreeDone
    /\ AnchorMonth = 12
    /\ Len(stdout) = 9
    /\ stdout[1] = ExpectedHeader(<<AnchorYear, 11>>, TRUE)
                     \o ExpectedHeader(<<AnchorYear, 12>>, TRUE)
                     \o ExpectedHeader(<<AnchorYear + 1, 1>>, TRUE)

(***************************************************************************)
(* The month argument: parse_month.                                        *)
(***************************************************************************)
to_uppercase(str) ==
    [i \in 1 .. Len(str) |->
        IF \E k \in 1 .. 26 : LowerChars[k] = str[i]
        THEN UpperChars[CHOOSE k \in 1 .. 26 : LowerChars[k] = str[i]]
        ELSE str[i]]

\* The strings drawn: the prefixes of the month names as written, in lower
\* and in upper case; the numerals 0 .. MaxNum, bare, signed and with a
\* leading zero; and some strings that are neither.
MonthInputs ==
    LET prefixes == UNION {{SubSeq(MONTH_NAMES[k], 1, n) :
                               n \in 0 .. Min(MaxPrefix, Len(MONTH_NAMES[k]))} :
                             k \in 1 .. 12}
        numerals == {Digits(n) : n \in 0 .. MaxNum}
    IN  prefixes
        \cup {to_lowercase(s) : s \in prefixes}
        \cup {to_uppercase(s) : s \in prefixes}
        \cup numerals
        \cup {<<"+">> \o s : s \in numerals}
        \cup {<<"-">> \o s : s \in numerals}
        \cup {<<"0">> \o s : s \in numerals}
        \cup {<<"f", "o", "o">>, <<"m", "a", "y", "x">>, <<"1", "x">>,
              <<"j", "n">>, <<" ", "5">>, <<"+">>, <<"-">>,
              U32MaxDigits,
              <<"4", "2", "9", "4", "9", "6", "7", "2", "9", "6">>}

InitParse ==
    /\ fn = "parse_month"
    /\ \E month \in MonthInputs : args = [month |-> month]
    /\ ret = NoValue
    /\ stdout = <<>>
    /\ pc = "call"

ParseMonth ==
    /\ pc = "call"
    /\ fn = "parse_month"
    /\ ret' = parse_month(args.month)
    /\ pc' = "done"
    /\ UNCHANGED <<fn, args, stdout>>

NextParse == ParseMonth

SpecParse == InitParse /\ [][NextParse]_vars

\* text holds part somewhere, character for character.
Contains(text, part) ==
    \E i \in 0 .. (Len(text) - Len(part)) : SubSeq(text, i + 1, i + Len(part)) = part

\* A numeral: an optional sign, then one or more digits.
IsNumeral(str) ==
    LET ds == IF str # <<>> /\ str[1] \in {"+", "-"} THEN Tail(str) ELSE str
    IN  ds # <<>> /\ \A i \in 1 .. Len(ds) : IsDigit(ds[i])

\* Whether the numeral is one of 1 .. 12, and which.
NumeralMonths(str) ==
    LET sig == StripZeros(IF str[1] = "+" THEN Tail(str) ELSE str)
    IN  IF str[1] # "-" /\ Len(sig) \in {1, 2} /\ DecimalValue(sig) \in 1 .. 12
        THEN {DecimalValue(sig)}
        ELSE {}

\* The months whose lower-cased name starts with the lower-cased input.
PrefixMonths(str) ==
    {k \in 1 .. 12 :
        /\ Len(str) <= Len(MONTH_NAMES[k])
        /\ \A i \in 1 .. Len(str) :
              LowerChar(str[i]) = LowerChar(MONTH_NAMES[k][i])}

ParseDone == fn = "parse_month" /\ pc = "done"

\* C10: a numeral gives its number iff that is in 1 .. 12, any other string
\* gives month k iff it is a prefix, case aside, of the name of month k and
\* of no other month; everything else is an error whose message holds the
\* input as it was given.
C10_ParseMonth ==
    ParseDone =>
        LET str == args.month
            months == IF IsNumeral(str) THEN NumeralMonths(str) ELSE PrefixMonths(str)
        IN  /\ \A k \in 1 .. 12 : (ret = Ok(k)) <=> (months = {k})
            /\ Cardinality(months) # 1 =>
                  /\ ~ret.ok
                  /\ Contains(ret.msg, str)

\* "JU" starts June and July: an error that names "JU", not month 6.
C10_Witness ==
    /\ ParseDone
    /\ args.month = <<"J", "U">>
    /\ ~ret.ok
    /\ Contains(ret.msg, <<"\"", "J", "U", "\"">>)

====
